---- MODULE Spec2Model ----
(***************************************************************************)
(* A model of the cotps client: the provider client of src/src/cotps.py    *)
(* on top of the OAuth session base of src/src/http_handler.py and the     *)
(* guards of src/src/utils.py.  The remote service is the environment: a   *)
(* response is chosen for every request that is sent.                      *)
(***************************************************************************)
EXTENDS Integers, Sequences, FiniteSets, TLC

(***************************************************************************)
(* Bounds of the model.                                                    *)
(***************************************************************************)
\* the most times one get/post call sends its request (first send and retries)
MaxSends == 2
\* the most iterations of the make_transactions loop that are followed
MaxIter == 2
\* the most the clock of the polling driver is followed, in units of 30 s
MaxTime == 6

(***************************************************************************)
(* Values.                                                                 *)
(***************************************************************************)
\* a key that is not in a dict
Absent == "<absent>"
\* Python's None, for the cookie
None == "None"
\* Python's None, for the token
NoToken == [none |-> TRUE]

HeaderNames == {"authorization", "Cookie", "Content-Type"}
ContentTypeJson == "application/json;charset=UTF-8"
EmptyHeaders == [k \in HeaderNames |-> Absent]

\* what the service can put in the login response's headers
AccessTokens == {"t1"}
Cookies == {"c1"}
\* the status codes the service answers with
Statuses == {200, 401, 500}
OrderIds == {"", "o1"}

\* balances are in tenths of a currency unit: 5.0 is 50
Threshold == 50
Balances == {30, 50, 120}
OrderAmounts == {40, 100}

Endpoints == {"balance", "create", "submit"}

\* spec_utils JWT(access_token=..., token_type=...)
JWT(access_token, token_type) ==
    [access_token |-> access_token, token_type |-> token_type]

\* '{} {}'.format(token.token_type, token.access_token)
AuthorizationValue(t) == t.token_type \o " " \o t.access_token

\* status_code in range(200, 300)
Is2xx(status) == status >= 200 /\ status < 300

(***************************************************************************)
(* The client object as a record, so that the methods are operators from   *)
(* a client to the client they leave and the exception they raise.         *)
(*   session  "None" or "open"                                             *)
(*   sh       the headers of the transport session (session.headers)       *)
(*   headers  the client's own headers dict                                *)
(*   token    NoToken or a JWT                                             *)
(*   cookie   None or a cookie string                                      *)
(***************************************************************************)
Pop(h, k) == [h EXCEPT ![k] = Absent]

\* dict.update(other)
Update(target, other) ==
    [k \in HeaderNames |-> IF other[k] # Absent THEN other[k] ELSE target[k]]

Ok(c) == [c |-> c, exc |-> "none"]
Raise(c, e) == [c |-> c, exc |-> e]

\* Client.__init__
NewClient ==
    [session |-> "None", sh |-> EmptyHeaders, headers |-> EmptyHeaders,
     token |-> NoToken, cookie |-> None]

\* Client.is_connected
IsConnected(c) == c.headers["authorization"] # Absent /\ c.token # NoToken

\* r, when it raised; else what next makes of the client r left
Bind(r, next(_)) == IF r.exc # "none" THEN r ELSE next(r.c)

\* refresh_headers 65-74, "if remove_token:"; session.headers of no session
\* raises AttributeError after token and headers were already changed
PopSessionToken(c) ==
    IF c.session = "None"
    THEN Raise(c, "AttributeError")
    ELSE Ok([c EXCEPT !.sh = Pop(Pop(@, "authorization"), "Cookie"),
                      !.cookie = None,
                      !.headers = Pop(@, "Cookie")])

RemoveTokenBlock(c) ==
    PopSessionToken([c EXCEPT !.token = NoToken,
                              !.headers = Pop(@, "authorization")])

\* refresh_headers 76-78, "if remove_content_type:"
PopSessionContentType(c) ==
    IF c.session = "None"
    THEN Raise(c, "AttributeError")
    ELSE Ok([c EXCEPT !.sh = Pop(@, "Content-Type")])

RemoveContentTypeBlock(c) ==
    PopSessionContentType([c EXCEPT !.headers = Pop(@, "Content-Type")])

\* refresh_headers 80-84, "if token:".  tokenArg is <<>> for a token
\* argument that is None or empty and <<a>> for {"token": a}
SetToken(c, tokenArg) ==
    IF tokenArg # <<>>
    THEN [c EXCEPT !.token = JWT(tokenArg[1], "Bearer")]
    ELSE c

\* refresh_headers 86-92, "if self.token:"
SetAuthorization(c) ==
    IF c.token # NoToken
    THEN [c EXCEPT !.headers["authorization"] = AuthorizationValue(c.token)]
    ELSE c

\* refresh_headers 94-97
SetContentType(c, remove_content_type) ==
    IF c.headers["Content-Type"] = Absent /\ ~remove_content_type
    THEN [c EXCEPT !.headers["Content-Type"] = ContentTypeJson]
    ELSE c

\* refresh_headers 99-100, "if cookie:".  cookieArg is "" for a cookie
\* argument that is None or ''
SetCookie(c, cookieArg) ==
    IF cookieArg # "" THEN [c EXCEPT !.cookie = cookieArg] ELSE c

\* refresh_headers 102-105, "if cookie and not remove_token:"
SetCookieHeader(c, cookieArg, remove_token) ==
    IF cookieArg # "" /\ ~remove_token
    THEN [c EXCEPT !.headers["Cookie"] = cookieArg]
    ELSE c

\* refresh_headers from "if token:" to the end
SetHeadersBlock(c, tokenArg, remove_token, remove_content_type, cookieArg) ==
    SetCookieHeader(
        SetCookie(
            SetContentType(SetAuthorization(SetToken(c, tokenArg)),
                           remove_content_type),
            cookieArg),
        cookieArg, remove_token)

\* Client.refresh_headers
RefreshHeadersOp(c, tokenArg, remove_token, remove_content_type, cookieArg) ==
    Bind(Bind(IF remove_token THEN RemoveTokenBlock(c) ELSE Ok(c),
              LAMBDA d : IF remove_content_type
                         THEN RemoveContentTypeBlock(d) ELSE Ok(d)),
         LAMBDA d : Ok(SetHeadersBlock(d, tokenArg, remove_token,
                                       remove_content_type, cookieArg)))

\* mutant: the session's headers are not refreshed
NoRefreshSession(c) == Ok(c)

\* OAuthClient.refresh_session
RefreshSessionOp(c) ==
    IF c.session = "None"
    THEN Raise(c, "AttributeError")
    ELSE Ok([c EXCEPT !.sh = Update(@, c.headers)])

\* mutant: logout that leaves token and headers
LogoutKeeps(c) == Ok(c)

\* Client.logout
LogoutOp(c) ==
    IF ~IsConnected(c) THEN Ok(c)
    ELSE Bind(RefreshHeadersOp(c, <<>>, TRUE, FALSE, ""), RefreshSessionOp)

(***************************************************************************)
(* Responses.  A response to the login POST is its status and the two      *)
(* response headers login() reads; transport is TRUE when the transport    *)
(* raised instead of answering (requests' own exception).                  *)
(***************************************************************************)
LoginResp(transport, status, authorization, setCookie) ==
    [transport |-> transport, status |-> status,
     authorization |-> authorization, setCookie |-> setCookie]

LoginTransportError == LoginResp(TRUE, 0, Absent, Absent)

\* every way the service can answer a login POST
AnyLoginResponses ==
    {LoginResp(FALSE, s, a, k) :
        s \in Statuses, a \in AccessTokens \cup {Absent},
        k \in Cookies \cup {Absent}}
    \cup {LoginTransportError}

\* a service that accepts the credentials
GoodLoginResponses == {LoginResp(FALSE, 200, "t1", "c1")}

\* response.headers.get(key, '')
HeaderGet(value) == IF value = Absent THEN "" ELSE value

(***************************************************************************)
(* login, relogin, start_session, close_session.  Each returns the client  *)
(* it leaves, the exception raised ("none" when it returns), whether the   *)
(* login POST was sent and the session headers that POST carried.          *)
(***************************************************************************)
NotSent(r) ==
    [c |-> r.c, exc |-> r.exc, sent |-> FALSE, carried |-> EmptyHeaders]
SentWith(r, carried) ==
    [c |-> r.c, exc |-> r.exc, sent |-> TRUE, carried |-> carried]

\* login 170-190: the POST, which the session sends with its headers as
\* they are then, and what login makes of the response.  get_headers=True:
\* post returns response.headers before it looks at the status (136-137)
LoginPost(c, resp) ==
    IF resp.transport
    THEN SentWith(Raise(c, "RequestException"), c.sh)
    ELSE SentWith(
             RefreshSessionOp(
                 SetHeadersBlock(c, << HeaderGet(resp.authorization) >>,
                                 FALSE, FALSE, HeaderGet(resp.setCookie))),
             c.sh)

LoginAfterClear(r, resp) ==
    IF r.exc # "none" THEN NotSent(r) ELSE LoginPost(r.c, resp)

\* mutant: login without its is_connected test
LoginAgain(c, resp) ==
    LoginAfterClear(RefreshHeadersOp(c, <<>>, TRUE, FALSE, ""), resp)

\* Client.login
LoginOp(c, resp) ==
    IF IsConnected(c) THEN NotSent(Ok(c))
    ELSE LoginAfterClear(RefreshHeadersOp(c, <<>>, TRUE, FALSE, ""), resp)

LoginAfterLogout(r, resp) ==
    IF r.exc # "none" THEN NotSent(r) ELSE LoginOp(r.c, resp)

\* Client.relogin
ReloginOp(c, resp) == LoginAfterLogout(LogoutOp(c), resp)

\* OAuthClient.start_session: a new requests.Session, then login
StartSessionOp(c, resp) ==
    LoginOp([c EXCEPT !.session = "open",
                      !.sh = Update(EmptyHeaders, c.headers)], resp)

\* close_session 149-151
CloseTransport(c) == Ok([c EXCEPT !.session = "None", !.sh = EmptyHeaders])

\* mutant: close_session without the logout
CloseWithoutLogout(c) == CloseTransport(c)

\* OAuthClient.close_session
CloseSessionOp(c) == Bind(LogoutOp(c), CloseTransport)

(***************************************************************************)
(* Responses to the GET and POST requests of get() and post(): the status, *)
(* response.text, whether the body parses as JSON, and the fields that     *)
(* make_transactions reads from the parsed body.                           *)
(***************************************************************************)
R(transport, status, text, json, hasBalance, bal, success, orderId) ==
    [transport |-> transport, status |-> status, text |-> text, json |-> json,
     hasBalance |-> hasBalance, balance |-> bal, success |-> success,
     orderId |-> orderId]

NoValue == R(FALSE, 0, "", FALSE, FALSE, 0, FALSE, "")
TransportError == R(TRUE, 0, "", FALSE, FALSE, 0, FALSE, "")
\* a response that is not 2xx has a body of its own
ErrText(status) == IF status = 401 THEN "unauthorized" ELSE "server error"
ErrorResponses ==
    {R(FALSE, s, ErrText(s), FALSE, FALSE, 0, FALSE, "") :
        s \in Statuses \ {200}}
NotJsonResponse == R(FALSE, 200, "raw", FALSE, FALSE, 0, FALSE, "")

\* {userinfo: {balance: "<float>"}}, or a body without that field
BalanceBodies ==
    {R(FALSE, 200, "", TRUE, TRUE, b, FALSE, "") : b \in Balances}
    \cup {R(FALSE, 200, "", TRUE, FALSE, 0, FALSE, "")}
\* {success: bool, data: {orderId: str}}
CreateBodies ==
    {R(FALSE, 200, "", TRUE, FALSE, 0, s, o) : s \in BOOLEAN, o \in OrderIds}
\* {success: bool}
SubmitBodies ==
    {R(FALSE, 200, "", TRUE, FALSE, 0, s, "") : s \in BOOLEAN}

Bodies(endpoint) ==
    CASE endpoint = "balance" -> BalanceBodies
      [] endpoint = "create" -> CreateBodies
      [] OTHER -> SubmitBodies

\* every way the service can answer a request to the endpoint
AnyResponses(endpoint) ==
    Bodies(endpoint) \cup ErrorResponses \cup {NotJsonResponse, TransportError}

\* the service on which every request succeeds: the balance endpoint reports
\* the account's balance, every order is created and confirmed
GoodResponses(endpoint, accountBalance) ==
    CASE endpoint = "balance" ->
            {R(FALSE, 200, "", TRUE, TRUE, accountBalance, FALSE, "")}
      [] endpoint = "create" -> {R(FALSE, 200, "", TRUE, FALSE, 0, TRUE, "o1")}
      [] OTHER -> {R(FALSE, 200, "", TRUE, FALSE, 0, TRUE, "")}

\* float(balance.get('userinfo', {}).get('balance', '0.0'))
BalanceValue(body) == IF body.hasBalance THEN body.balance ELSE 0

\* mutants of the loop test: a strict comparison, a test for any balance
StrictlyAbove(body) == BalanceValue(body) > Threshold
AnyBalance(body) == BalanceValue(body) > 0

\* the loop test of make_transactions: ... >= 5.0
AboveThreshold(body) == BalanceValue(body) >= Threshold

(***************************************************************************)
(* How a call ends: the exception raised or "return", and what it carries. *)
(***************************************************************************)
Outcome(kind, status, detail, value) ==
    [kind |-> kind, status |-> status, detail |-> detail, value |-> value]

NoOutcome == Outcome("none", 0, "", NoValue)
Returned(value) == Outcome("return", 0, "", value)
Raised(kind) == Outcome(kind, 0, "", NoValue)
\* utils.py ensure_session
NoActiveSession == Outcome("ConnectionError", 0, "no active session", NoValue)
\* utils.py ensure_connection
Disconnected == Outcome("ConnectionError", 0, "disconnected", NoValue)
\* ConnectionError({"status": response.status_code, "detail": response.text})
RequestFailure(r) == Outcome("ConnectionError", r.status, r.text, NoValue)

(***************************************************************************)
(* One pass through the body of get() or post(): the request rq is sent,   *)
(* r is the response and lr the response to the login POST of a relogin.   *)
(* Returns the client it leaves, the outcome, whether the call goes on     *)
(* with the recursive call (retry), and what was sent: the request, the    *)
(* login POST of a relogin and the session headers that POST carried.      *)
(***************************************************************************)
Pass(c, out, retry, sent, relogin, loginSent, carried) ==
    [c |-> c, out |-> out, retry |-> retry, sent |-> sent,
     relogin |-> relogin, loginSent |-> loginSent, carried |-> carried]

\* self.relogin() has ended with rl: the recursive call, unless it raised
AfterRelogin(rl) ==
    IF rl.exc # "none"
    THEN Pass(rl.c, Raised(rl.exc), FALSE, TRUE, TRUE, rl.sent, rl.carried)
    ELSE Pass(rl.c, NoOutcome, TRUE, TRUE, TRUE, rl.sent, rl.carried)

\* "if response.status_code == 401 and self.session_expired:" and what
\* follows it, common to get and post; expired is the provider's
\* session_expired: "True", "False", or "NotImplemented" for a provider
\* that does not override the property of OAuthClient
After401Check(c, expired, r, lr, onSuccess) ==
    IF r.status = 401 /\ expired = "NotImplemented"
    THEN Pass(c, Raised("NotImplementedError"), FALSE, TRUE, FALSE, FALSE,
              EmptyHeaders)
    ELSE IF r.status = 401 /\ expired = "True"
    THEN AfterRelogin(ReloginOp(c, lr))
    ELSE IF ~Is2xx(r.status)
    THEN Pass(c, RequestFailure(r), FALSE, TRUE, FALSE, FALSE, EmptyHeaders)
    ELSE Pass(c, onSuccess, FALSE, TRUE, FALSE, FALSE, EmptyHeaders)

\* OAuthClient.get, under Decorators.ensure_session
GetPass(c, expired, r, lr) ==
    IF c.session = "None"
    THEN Pass(c, NoActiveSession, FALSE, FALSE, FALSE, FALSE, EmptyHeaders)
    ELSE IF r.transport
    THEN Pass(c, Raised("RequestException"), FALSE, TRUE, FALSE, FALSE,
              EmptyHeaders)
    ELSE After401Check(c, expired, r, lr,
             IF r.json THEN Returned(r) ELSE Raised("JSONDecodeError"))

\* Client.post, which overrides OAuthClient.post without the decorator
PostPass(c, expired, r, lr) ==
    IF c.session = "None"
    THEN Pass(c, Raised("AttributeError"), FALSE, FALSE, FALSE, FALSE,
              EmptyHeaders)
    ELSE IF r.transport
    THEN Pass(c, Raised("RequestException"), FALSE, TRUE, FALSE, FALSE,
              EmptyHeaders)
    ELSE After401Check(c, expired, r, lr, Returned(r))

(***************************************************************************)
(* make_transactions.  Its frame is a record:                              *)
(*   pc       "idle", or the call it is waiting for: "get_balance",        *)
(*            "create_order", "confirm_order", or "done"                   *)
(*   balance  the local balance (the last snapshot fetched)                *)
(*   order    the local order (the last creation response)                 *)
(*   iter     the number of loop iterations entered                        *)
(*   first    the first snapshot fetched                                   *)
(*   log      the calls made since the balance fetch that let the current  *)
(*            iteration in, that fetch included, each with its result      *)
(***************************************************************************)
Req(method, endpoint, orderId) ==
    [method |-> method, endpoint |-> endpoint, orderId |-> orderId]
NoReq == Req("", "", "")

Call(name, orderId, done, result) ==
    [call |-> name, orderId |-> orderId, done |-> done, result |-> result]

NoFrame ==
    [pc |-> "idle", balance |-> NoValue, order |-> NoValue, iter |-> 0,
     first |-> NoValue, log |-> <<>>]

Last(q) == q[Len(q)]
SetLast(q, e) == [q EXCEPT ![Len(q)] = e]

\* what make_transactions does next: go on with a request, or end
Go(m, rq) == [m |-> m, req |-> rq, out |-> NoOutcome]
End(m, out) == [m |-> [m EXCEPT !.pc = "done"], req |-> NoReq, out |-> out]

\* a call of get_balance, create_order or confirm_order from the loop:
\* Decorators.ensure_connection, then self.get(...)
MtCall(c, m, name, endpoint, orderId) ==
    IF ~IsConnected(c) THEN End(m, Disconnected)
    ELSE Go([m EXCEPT !.pc = name,
                      !.log = Append(@, Call(name, orderId, FALSE, NoValue))],
            Req("GET", endpoint, orderId))

\* mutant: the order id is not looked at
SuccessAlone(order) == order.success

\* "if order.get('success', None) and order_id:"
OrderCreated(order) == order.success /\ order.orderId # ""

\* mutant: a failed confirmation is let through
NeverFailed(confirmed) == FALSE

\* "if not confirmed.get('success', None):"
ConfirmFailed(confirmed) == ~confirmed.success

\* the call make_transactions waited for has returned value
Done(m, value) ==
    [m EXCEPT !.log = SetLast(@, Call(Last(m.log).call, Last(m.log).orderId,
                                      TRUE, value))]

\* the loop is entered: the log starts again at the balance fetch
NextIteration(m) == [m EXCEPT !.iter = @ + 1, !.log = << Last(m.log) >>]

\* the loop test (240), then create_order (243) or the return (259)
LoopTest(c, m) ==
    IF AboveThreshold(m.balance)
    THEN MtCall(c, NextIteration(m), "create_order", "create", "")
    ELSE End(m, Returned(m.balance))

\* after "balance = self.get_balance()" (239, 256)
AfterBalance(c, m, value) ==
    LoopTest(c, [Done(m, value) EXCEPT
                     !.balance = value,
                     !.first = IF m.iter = 0 THEN value ELSE @])

\* "if order.get('success', None) and order_id:" (247), on the local order
AfterOrder(c, m) ==
    IF OrderCreated(m.order)
    THEN MtCall(c, m, "confirm_order", "submit", m.order.orderId)
    ELSE MtCall(c, m, "get_balance", "balance", "")

\* after "order = self.create_order()" (243)
AfterCreate(c, m, value) ==
    AfterOrder(c, [Done(m, value) EXCEPT !.order = value])

\* "if not confirmed.get('success', None): raise RuntimeError" (252-253)
AfterConfirmed(c, m, confirmed) ==
    IF ConfirmFailed(confirmed)
    THEN End(m, Outcome("RuntimeError", 0, m.order.orderId, NoValue))
    ELSE MtCall(c, m, "get_balance", "balance", "")

\* after "confirmed = self.confirm_order(order_id=order_id)" (250)
AfterConfirm(c, m, value) == AfterConfirmed(c, Done(m, value), value)

\* the call make_transactions waited for has ended with out
MtContinue(c, m, out) ==
    IF out.kind # "return" THEN End(m, out)
    ELSE CASE m.pc = "get_balance" -> AfterBalance(c, m, out.value)
           [] m.pc = "create_order" -> AfterCreate(c, m, out.value)
           [] OTHER -> AfterConfirm(c, m, out.value)

\* make_transactions is entered: ensure_connection, then the first
\* get_balance
MtEnter(c) ==
    IF ~IsConnected(c) THEN End(NoFrame, Disconnected)
    ELSE MtCall(c, NoFrame, "get_balance", "balance", "")

(***************************************************************************)
(* State.                                                                  *)
(***************************************************************************)
VARIABLES
    session,          \* client.session: "None" or "open"
    sh,               \* client.session.headers
    headers,          \* client.headers
    token,            \* client.token
    cookie,           \* client.cookie
    session_expired,  \* the provider's session_expired property
    server,           \* "good": every request succeeds; "any": any response
    account,          \* the account's balance on the good server
    amount,           \* what a confirmed order takes from the account
    scope,            \* "in" inside a with-block on the client, else "out"
    op,               \* the call in progress, "none" between calls
    req,              \* the request the get/post in progress sends
    sends,            \* times the current get/post has sent its request
    relogins,         \* times the current get/post has called relogin
    mt,               \* the frame of make_transactions
    logins,           \* login POSTs the current call has sent
    received,         \* the last response the current call has received
    loginPost,        \* the last login POST the current call has sent
    lastOp,           \* the call that ended last
    outcome,          \* how it ended
    driver,           \* the polling driver of bot_cli.py
    pair              \* two clients and what == and != say of them

clientVars == << session, sh, headers, token, cookie >>
envVars == << session_expired, server, amount, driver, pair >>
callVars == << op, req, sends, relogins, mt, logins, received, loginPost,
              lastOp, outcome >>
vars == << session, sh, headers, token, cookie, session_expired, server,
           account, amount, scope, op, req, sends, relogins, mt, logins,
           received, loginPost, lastOp, outcome, driver, pair >>

Self ==
    [session |-> session, sh |-> sh, headers |-> headers, token |-> token,
     cookie |-> cookie]

SetSelf(c) ==
    /\ session' = c.session
    /\ sh' = c.sh
    /\ headers' = c.headers
    /\ token' = c.token
    /\ cookie' = c.cookie

\* a response as the call that received it sees it
Received(endpoint, status, text) ==
    [endpoint |-> endpoint, status |-> status, text |-> text]
NoResponse == Received("", 0, "")
ReceivedLogin(sentIt, lr) ==
    IF sentIt /\ ~lr.transport
    THEN Received("login", lr.status,
                  IF Is2xx(lr.status) THEN "" ELSE ErrText(lr.status))
    ELSE NoResponse

\* a login POST as it went out and came back: the session headers it was
\* sent with, and the authorization header of the response
LoginPosted(carried, lr) ==
    [sent |-> TRUE, carried |-> carried,
     authorization |-> IF lr.transport THEN Absent ELSE lr.authorization]
NoLoginPost == [sent |-> FALSE, carried |-> EmptyHeaders, authorization |-> Absent]

LoginResponses == IF server = "good" THEN GoodLoginResponses ELSE AnyLoginResponses
Responses(endpoint) ==
    IF server = "good" THEN GoodResponses(endpoint, account)
    ELSE AnyResponses(endpoint)

\* the state after "client = Client(username=..., pwd=...)"
Fresh ==
    /\ session = NewClient.session
    /\ sh = NewClient.sh
    /\ headers = NewClient.headers
    /\ token = NewClient.token
    /\ cookie = NewClient.cookie
    /\ server \in {"good", "any"}
    /\ session_expired \in IF server = "good" THEN {"NotImplemented"}
                          ELSE {"NotImplemented", "True", "False"}
    /\ IF server = "good"
       THEN account \in Balances /\ amount \in OrderAmounts
       ELSE account = 0 /\ amount = 0
    /\ scope = "out"
    /\ op = "none"
    /\ req = NoReq
    /\ sends = 0
    /\ relogins = 0
    /\ mt = NoFrame
    /\ logins = 0
    /\ received = NoResponse
    /\ loginPost = NoLoginPost
    /\ lastOp = "none"
    /\ outcome = NoOutcome

\* the driver of bot_cli.py is not running
NoDriver ==
    [pc |-> "off", boot |-> FALSE, now |-> 0, start |-> 0, prev |-> 0,
     cycles |-> 0, nOpen |-> 0, events |-> <<>>]

\* an identity of a client: what __eq__ and __ne__ compare
Identity(url, username) == [url |-> url, username |-> username]
Compared(a, b, eq, ne) == [a |-> a, b |-> b, eq |-> eq, ne |-> ne]
NoPair ==
    Compared(Identity("", ""), Identity("", ""), "unset", "unset")

Init ==
    /\ Fresh
    /\ driver = NoDriver
    /\ pair = NoPair

(***************************************************************************)
(* Calls that send at most the login POST are one step each.               *)
(***************************************************************************)
\* a call that is not get, post or a workflow call begins and ends: r is
\* what its operator gave, lr the response to its login POST
Ended(name, r, lr) ==
    /\ SetSelf(r.c)
    /\ op' = "none"
    /\ req' = NoReq
    /\ sends' = 0
    /\ relogins' = 0
    /\ mt' = NoFrame
    /\ logins' = IF r.sent THEN 1 ELSE 0
    /\ received' = ReceivedLogin(r.sent, lr)
    /\ loginPost' = IF r.sent THEN LoginPosted(r.carried, lr) ELSE NoLoginPost
    /\ lastOp' = name
    /\ outcome' = IF r.exc = "none" THEN Returned(NoValue) ELSE Raised(r.exc)

Idle == op = "none"
\* outside a with-block the caller drives the client by hand
Manual == Idle /\ scope = "out"

\* client.start_session()
StartSession ==
    /\ Manual
    /\ \E lr \in LoginResponses :
         Ended("start_session", StartSessionOp(Self, lr), lr)
    /\ UNCHANGED << envVars, account, scope >>

\* client.close_session()
CloseSession ==
    /\ Manual
    /\ Ended("close_session", NotSent(CloseSessionOp(Self)),
             LoginTransportError)
    /\ UNCHANGED << envVars, account, scope >>

\* client.login()
Login ==
    /\ Manual
    /\ \E lr \in LoginResponses : Ended("login", LoginOp(Self, lr), lr)
    /\ UNCHANGED << envVars, account, scope >>

\* client.logout()
Logout ==
    /\ Manual
    /\ Ended("logout", NotSent(LogoutOp(Self)), LoginTransportError)
    /\ UNCHANGED << envVars, account, scope >>

\* client.relogin()
Relogin ==
    /\ Manual
    /\ \E lr \in LoginResponses : Ended("relogin", ReloginOp(Self, lr), lr)
    /\ UNCHANGED << envVars, account, scope >>

\* client.refresh_headers(token=, remove_token=, remove_content_type=, cookie=)
RefreshHeaders ==
    /\ Manual
    /\ \E tokenArg \in {<<>>, << "t2" >>},
          remove_token \in BOOLEAN, remove_content_type \in BOOLEAN,
          cookieArg \in {"", "c2"} :
         Ended("refresh_headers",
               NotSent(RefreshHeadersOp(Self, tokenArg, remove_token,
                                        remove_content_type, cookieArg)),
               LoginTransportError)
    /\ UNCHANGED << envVars, account, scope >>

\* __enter__ has ended with r: when it raised the block is not entered
\* and __exit__ is not called
Entered(r, lr) ==
    /\ Ended("__enter__", r, lr)
    /\ scope' = IF r.exc = "none" THEN "in" ELSE "out"

\* "with client:" is entered: __enter__ is start_session
Enter ==
    /\ Manual
    /\ \E lr \in LoginResponses : Entered(StartSessionOp(Self, lr), lr)
    /\ UNCHANGED << envVars, account >>

\* __exit__ has ended with r; as it returns None, the exception that left
\* the block goes on to the caller
Exited(r) ==
    /\ SetSelf(r.c)
    /\ outcome' = IF r.exc # "none" THEN Raised(r.exc)
                  ELSE IF outcome.kind # "return" THEN outcome
                  ELSE Returned(NoValue)

\* the with-block is left, by its end or by an exception of the workflow:
\* __exit__ is close_session
Exit ==
    /\ Idle
    /\ scope = "in"
    /\ Exited(CloseSessionOp(Self))
    /\ lastOp' = "__exit__"
    /\ scope' = "out"
    /\ UNCHANGED << envVars, account, op, req, sends, relogins, mt, logins,
                    received, loginPost >>

(***************************************************************************)
(* get, post and the workflow calls send requests: the call begins in one  *)
(* step and every request it sends, with its response, is a step.          *)
(***************************************************************************)
\* inside a with-block the workflow runs until it ends or raises
MayCall == Idle /\ (scope = "in" => outcome.kind = "return")

\* the account of the good server is not driven below zero by hand
MayTake == server = "good" => account >= Threshold

Begin(name, rq, frame) ==
    /\ op' = name
    /\ req' = rq
    /\ sends' = 0
    /\ relogins' = 0
    /\ mt' = frame
    /\ logins' = 0
    /\ received' = NoResponse
    /\ loginPost' = NoLoginPost
    /\ lastOp' = "none"
    /\ outcome' = NoOutcome

\* the call ends before any request: a guard of utils.py raised
Refused(name, out, frame) ==
    /\ op' = "none"
    /\ req' = NoReq
    /\ sends' = 0
    /\ relogins' = 0
    /\ mt' = frame
    /\ logins' = 0
    /\ received' = NoResponse
    /\ loginPost' = NoLoginPost
    /\ lastOp' = name
    /\ outcome' = out

\* mutant: the method without its ensure_connection
Unguarded(name, endpoint, orderId) ==
    /\ Begin(name, Req("GET", endpoint, orderId), NoFrame)
    /\ UNCHANGED << clientVars, envVars, account, scope >>

\* a call of a method under Decorators.ensure_connection that is one get
Guarded(name, endpoint, orderId) ==
    /\ IF IsConnected(Self)
       THEN Begin(name, Req("GET", endpoint, orderId), NoFrame)
       ELSE Refused(name, Disconnected, NoFrame)
    /\ UNCHANGED << clientVars, envVars, account, scope >>

\* client.get(path=...)
Get ==
    /\ Manual
    /\ \E e \in Endpoints :
         /\ e = "submit" => MayTake
         /\ Begin("get", Req("GET", e, IF e = "submit" THEN "o1" ELSE ""),
                  NoFrame)
    /\ UNCHANGED << clientVars, envVars, account, scope >>

\* client.post(path=...)
Post ==
    /\ Manual
    /\ \E e \in Endpoints :
         /\ e = "submit" => MayTake
         /\ Begin("post", Req("POST", e, IF e = "submit" THEN "o1" ELSE ""),
                  NoFrame)
    /\ UNCHANGED << clientVars, envVars, account, scope >>

\* client.get_balance()
GetBalance ==
    /\ MayCall
    /\ Guarded("get_balance", "balance", "")

\* client.create_order()
CreateOrder ==
    /\ MayCall
    /\ Guarded("create_order", "create", "")

\* client.confirm_order(order_id=...)
ConfirmOrder ==
    /\ MayCall
    /\ MayTake
    /\ Guarded("confirm_order", "submit", "o1")

\* make_transactions has been entered: it waits for its first get_balance,
\* or ensure_connection has raised
Started(step) ==
    IF step.req # NoReq
    THEN Begin("make_transactions", step.req, step.m)
    ELSE Refused("make_transactions", step.out, step.m)

\* client.make_transactions()
MakeTransactions ==
    /\ MayCall
    /\ Started(MtEnter(Self))
    /\ UNCHANGED << clientVars, envVars, account, scope >>

\* the response the call keeps as its last: r to the request, or lr to the
\* login POST of the relogin that followed it
LastReceived(p, r, lr) ==
    IF p.loginSent /\ ~lr.transport THEN ReceivedLogin(TRUE, lr)
    ELSE IF p.sent /\ ~r.transport
    THEN Received(req.endpoint, r.status, r.text)
    ELSE received

\* the pass p through get/post has ended; step is what the caller of that
\* get does with its outcome
Handled(p, step) ==
    /\ SetSelf(p.c)
    /\ IF p.retry
       THEN \* the recursive self.get(...) / self.post(...)
            /\ sends' = sends + 1
            /\ relogins' = relogins + 1
            /\ logins' = IF p.loginSent THEN logins + 1 ELSE logins
            /\ UNCHANGED << op, req, mt, lastOp, outcome >>
       ELSE IF step.req # NoReq
       THEN \* make_transactions goes on with its next call
            /\ step.m.iter <= MaxIter
            /\ req' = step.req
            /\ mt' = step.m
            /\ sends' = 0
            /\ relogins' = 0
            /\ logins' = 0
            /\ UNCHANGED << op, lastOp, outcome >>
       ELSE \* the call in progress ends
            /\ op' = "none"
            /\ req' = NoReq
            /\ mt' = step.m
            /\ sends' = IF p.sent THEN sends + 1 ELSE sends
            /\ relogins' = IF p.relogin THEN relogins + 1 ELSE relogins
            /\ logins' = IF p.loginSent THEN logins + 1 ELSE logins
            /\ lastOp' = op
            /\ outcome' = step.out

\* a pass through get/post, and make_transactions going on when it is the
\* caller
Passed(p, r, lr) ==
    /\ Handled(p, IF op = "make_transactions"
                  THEN MtContinue(p.c, mt, p.out)
                  ELSE [m |-> mt, req |-> NoReq, out |-> p.out])
    /\ received' = LastReceived(p, r, lr)
    /\ loginPost' = IF p.loginSent THEN LoginPosted(p.carried, lr)
                    ELSE loginPost
    /\ account' = IF server = "good" /\ req.endpoint = "submit"
                     /\ p.sent /\ Is2xx(r.status)
                  THEN account - amount ELSE account

\* the get or post in progress sends its request and handles the response
SendRequest ==
    /\ req # NoReq
    /\ sends < MaxSends
    /\ \E r \in Responses(req.endpoint) :
       \E lr \in (IF r.status = 401 /\ session_expired = "True"
                  THEN LoginResponses ELSE {LoginTransportError}) :
         Passed(IF req.method = "GET"
                THEN GetPass(Self, session_expired, r, lr)
                ELSE PostPass(Self, session_expired, r, lr), r, lr)
    /\ UNCHANGED << envVars, scope >>

Next ==
    \/ StartSession
    \/ CloseSession
    \/ Login
    \/ Logout
    \/ Relogin
    \/ RefreshHeaders
    \/ Enter
    \/ Exit
    \/ Get
    \/ Post
    \/ GetBalance
    \/ CreateOrder
    \/ ConfirmOrder
    \/ MakeTransactions
    \/ SendRequest

Spec == Init /\ [][Next]_vars

\* a call in progress goes on: the program is sequential and blocking
FairSpec == Spec /\ WF_vars(SendRequest)

\* the client driven through start_session, login, logout, relogin,
\* close_session, the with-block and the requests: every call of Next but
\* the direct call of refresh_headers
LifecycleNext ==
    \/ StartSession
    \/ CloseSession
    \/ Login
    \/ Logout
    \/ Relogin
    \/ Enter
    \/ Exit
    \/ Get
    \/ Post
    \/ GetBalance
    \/ CreateOrder
    \/ ConfirmOrder
    \/ MakeTransactions
    \/ SendRequest

LifecycleSpec == Init /\ [][LifecycleNext]_vars

(***************************************************************************)
(* The polling driver of bot_cli.py: a bootstrap cycle, then a cycle       *)
(* whenever more than 60 seconds have passed since the driver last set     *)
(* start.  The clock counts units of 30 seconds.  The driver record is:    *)
(*   pc      "with" before a with-statement, "in" inside the block, "ran"  *)
(*           once make_transactions is called, "mark" before line 24,      *)
(*           "loop" at the test of line 27, "due" before line 28,          *)
(*           "crashed" when an exception has ended the program             *)
(*   boot    TRUE in the bootstrap cycle                                   *)
(*   now     the clock, what time() returns                                *)
(*   start   the driver's variable start; prev its value before line 28    *)
(*   cycles  steady-state cycles started                                   *)
(*   nOpen   transport sessions that are open                              *)
(*   events  what the current cycle has done                               *)
(***************************************************************************)
\* "60.0" seconds, in units of 30 seconds
PollInterval == 2

\* mutant: a cycle as soon as the interval has passed
DueAtInterval(t, start) == t - start >= PollInterval

\* "if time() - start > 60.0:"
Due(t, start) == t - start > PollInterval

\* the program starts
Boot ==
    [pc |-> "with", boot |-> TRUE, now |-> 0, start |-> 0, prev |-> 0,
     cycles |-> 0, nOpen |-> 0, events |-> <<>>]

\* the driver uses the shipped Client, which has no session_expired
DriverInit ==
    /\ Fresh
    /\ session_expired = "NotImplemented"
    /\ driver = Boot
    /\ pair = NoPair

driverFrame == << session_expired, server, amount, account, pair >>

\* __enter__ of a new Client has ended with r; an exception ends the program
DriverEntered(r, lr) ==
    /\ Entered(r, lr)
    /\ driver' = [driver EXCEPT
                     !.pc = IF r.exc = "none" THEN "in" ELSE "crashed",
                     !.nOpen = @ + 1,
                     !.events = << "open", "login" >>]

\* "with Client(username=USERNAME, pwd=PASSWORD) as client:" (19, 29)
DriverEnter ==
    /\ driver.pc = "with"
    /\ \E lr \in LoginResponses :
         DriverEntered(StartSessionOp(NewClient, lr), lr)
    /\ UNCHANGED driverFrame

\* "balance = client.make_transactions()" (20, 30)
DriverMakeTransactions ==
    /\ driver.pc = "in"
    /\ Started(MtEnter(Self))
    /\ driver' = [driver EXCEPT !.pc = "ran",
                                !.events = Append(@, "make_transactions")]
    /\ UNCHANGED << clientVars, driverFrame, scope >>

\* __exit__ has ended with r: after the bootstrap cycle comes line 24,
\* after a steady-state cycle the loop; an exception of the block or of
\* __exit__ ends the program
DriverExited(r) ==
    /\ Exited(r)
    /\ driver' = [driver EXCEPT
                     !.pc = IF r.exc # "none" \/ outcome.kind # "return"
                            THEN "crashed"
                            ELSE IF driver.boot THEN "mark" ELSE "loop",
                     !.nOpen = IF r.c.session = "None" THEN @ - 1 ELSE @,
                     !.events = IF r.exc = "none"
                                THEN @ \o << "logout", "close" >>
                                ELSE Append(@, "logout")]

\* the with-block is left once make_transactions has returned or raised
DriverExit ==
    /\ driver.pc = "ran"
    /\ op = "none"
    /\ DriverExited(CloseSessionOp(Self))
    /\ lastOp' = "__exit__"
    /\ scope' = "out"
    /\ UNCHANGED << driverFrame, op, req, sends, relogins, mt, logins,
                    received, loginPost >>

driverOnly == << clientVars, driverFrame, scope, callVars >>

\* "start = time()" after the bootstrap cycle (24)
DriverMark ==
    /\ driver.pc = "mark"
    /\ driver' = [driver EXCEPT !.pc = "loop", !.boot = FALSE,
                                !.start = driver.now]
    /\ UNCHANGED driverOnly

\* "if time() - start > 60.0:" is true (27); while it is false the loop
\* spins without a change
DriverCheck ==
    /\ driver.pc = "loop"
    /\ Due(driver.now, driver.start)
    /\ driver' = [driver EXCEPT !.pc = "due"]
    /\ UNCHANGED driverOnly

\* "start = time()" of a steady-state cycle (28)
DriverRestart ==
    /\ driver.pc = "due"
    /\ driver' = [driver EXCEPT !.pc = "with", !.prev = driver.start,
                                !.start = driver.now, !.cycles = @ + 1]
    /\ UNCHANGED driverOnly

\* time passes between the statements of the driver
Tick ==
    /\ driver.pc \in {"with", "in", "ran", "mark", "loop", "due"}
    /\ op = "none"
    /\ driver.now < MaxTime
    /\ driver' = [driver EXCEPT !.now = @ + 1]
    /\ UNCHANGED driverOnly

DriverNext ==
    \/ DriverEnter
    \/ DriverMakeTransactions
    \/ SendRequest
    \/ DriverExit
    \/ DriverMark
    \/ DriverCheck
    \/ DriverRestart
    \/ Tick

DriverSpec == DriverInit /\ [][DriverNext]_vars

(***************************************************************************)
(* __eq__ and __ne__ of OAuthBase, applied to two clients a and b of which *)
(* only url and username matter.                                           *)
(***************************************************************************)
Urls == {"u1", "u2", "u3"}
Usernames == {"n1", "n2", "n3"}
Identities == {Identity(u, n) : u \in Urls, n \in Usernames}

\* OAuthBase.__eq__
Eq(a, b) == a.url = b.url /\ a.username = b.username

\* OAuthBase.__ne__
Ne(a, b) == a.url = b.url \/ a.username # b.username

\* what a comparison has returned: "True" or "False" ("unset" before it)
Result(b) == IF b THEN "True" ELSE "False"

\* two clients have been constructed
CompareInit ==
    /\ Fresh
    /\ driver = NoDriver
    /\ pair \in {Compared(a, b, "unset", "unset") :
                    a \in Identities, b \in Identities}

compareFrame ==
    << clientVars, session_expired, server, amount, account, scope,
       callVars, driver >>

\* "a == b" is evaluated
CallEq ==
    /\ pair.eq = "unset"
    /\ pair' = [pair EXCEPT !.eq = Result(Eq(pair.a, pair.b))]
    /\ UNCHANGED compareFrame

\* "a != b" is evaluated
CallNe ==
    /\ pair.ne = "unset"
    /\ pair' = [pair EXCEPT !.ne = Result(Ne(pair.a, pair.b))]
    /\ UNCHANGED compareFrame

CompareNext ==
    \/ CallEq
    \/ CallNe

CompareSpec == CompareInit /\ [][CompareNext]_vars

(***************************************************************************)
(* The claims.                                                             *)
(***************************************************************************)
MtReturned ==
    op = "none" /\ lastOp = "make_transactions" /\ outcome.kind = "return"

\* C1: a get or post that receives 401 with session_expired true calls
\* relogin once and sends the request again once; whatever the answer to the
\* retry, there is no second relogin and no third send, and a retry that is
\* not 2xx ends the call with ConnectionError.
C1_ReloginOnceRetryOnce ==
    session_expired = "True" =>
        /\ relogins <= 1
        /\ sends <= 2
        /\ (op = "none" /\ lastOp \in {"get", "post"} /\ relogins = 1
              /\ received.endpoint # "login" /\ ~Is2xx(received.status)
              /\ received.status # 401)
           => outcome.kind = "ConnectionError"

\* C2: on the good server make_transactions on a connected client with an
\* open session ends by returning; what it returns is the last snapshot
\* fetched and is below the threshold; from 12.0 with 10.0 an order it runs
\* the loop once and returns 2.0.
C2_TerminatesBelowThreshold ==
    /\ (op = "make_transactions" /\ server = "good" /\ session = "open")
          ~> (MtReturned /\ BalanceValue(outcome.value) < Threshold)
    /\ [](MtReturned =>
            /\ BalanceValue(outcome.value) < Threshold
            /\ Last(mt.log).call = "get_balance"
            /\ Last(mt.log).done
            /\ outcome.value = Last(mt.log).result)
    /\ [](MtReturned /\ server = "good" /\ BalanceValue(mt.first) = 120
             /\ amount = 100
            => mt.iter = 1 /\ BalanceValue(outcome.value) = 20)

C2_Witness ==
    /\ MtReturned
    /\ server = "good"
    /\ BalanceValue(mt.first) = 120
    /\ amount = 100
    /\ mt.iter = 1
    /\ BalanceValue(outcome.value) = 20

\* C3: the calls of an iteration of the make_transactions loop come in this
\* order, one at a time: a balance fetch of at least 5.0, then one
\* create_order, then one confirm_order with the returned order id exactly
\* when the creation reports success with a non-empty id, then one balance
\* fetch; an iteration stops short of that only by an exception.
ActionableOrder(e) ==
    /\ e.call = "create_order"
    /\ e.done
    /\ e.result.success
    /\ e.result.orderId # ""

C3_OrderOfCalls(log) ==
    /\ log # <<>> => log[1].call = "get_balance"
    /\ \A i \in 1..(Len(log) - 1) : log[i].done
    /\ \A i \in 2..Len(log) :
         \/ /\ log[i].call = "create_order"
            /\ i = 2
            /\ BalanceValue(log[1].result) >= Threshold
         \/ /\ log[i].call = "confirm_order"
            /\ i = 3
            /\ ActionableOrder(log[2])
            /\ log[i].orderId = log[2].result.orderId
         \/ /\ log[i].call = "get_balance"
            /\ \/ /\ i = 3
                  /\ log[2].call = "create_order"
                  /\ ~ActionableOrder(log[2])
               \/ /\ i = 4
                  /\ log[3].call = "confirm_order"
                  /\ log[3].result.success

C3_IterationOrder ==
    /\ C3_OrderOfCalls(mt.log)
    \* the call in progress is the last of the log, and its request is sent
    \* to that call's endpoint with that call's order id
    /\ op = "make_transactions" =>
         /\ mt.log # <<>>
         /\ ~Last(mt.log).done
         /\ Last(mt.log).call = mt.pc
         /\ req.orderId = Last(mt.log).orderId
         /\ req.endpoint = CASE mt.pc = "get_balance" -> "balance"
                             [] mt.pc = "create_order" -> "create"
                             [] OTHER -> "submit"
    \* when the last call has returned and no call followed it, the loop
    \* has returned below the threshold or a confirmation has failed
    /\ (op = "none" /\ lastOp = "make_transactions" /\ mt.log # <<>>
          /\ Last(mt.log).done)
       => \/ /\ outcome.kind = "return"
             /\ Last(mt.log).call = "get_balance"
             /\ BalanceValue(Last(mt.log).result) < Threshold
          \/ /\ outcome.kind = "RuntimeError"
             /\ Last(mt.log).call = "confirm_order"
             /\ ~Last(mt.log).result.success

C3_Witness ==
    /\ MtReturned
    /\ Len(mt.log) = 4
    /\ mt.log[3].call = "confirm_order"
    /\ mt.log[3].orderId = "o1"
    /\ server = "any"

\* C4: when a with-block on the client is left, also by an exception of the
\* workflow in it, __exit__ logs out and closes the session: after it the
\* client is not connected, token and cookie are null and the session is
\* None.
C4_ExitReleases ==
    lastOp = "__exit__" =>
        /\ ~IsConnected(Self)
        /\ token = NoToken
        /\ cookie = None
        /\ session = "None"
        /\ headers["authorization"] = Absent
        /\ outcome.kind # "AttributeError"

C4_Witness ==
    /\ lastOp = "__exit__"
    /\ outcome.kind = "RuntimeError"
    /\ session = "None"
    /\ token = NoToken

\* C5: a response that is not 2xx ends the call with ConnectionError
\* carrying its status and its body, on every endpoint: login, balance,
\* create order, submit order.  (Stated for the statuses other than 401,
\* which has a handling of its own.)
C5_NonSuccessRaises ==
    (/\ op = "none"
     /\ received # NoResponse
     /\ ~Is2xx(received.status)
     /\ received.status # 401)
    => /\ outcome.kind = "ConnectionError"
       /\ outcome.status = received.status
       /\ outcome.detail = received.text

\* C6: is_connected is true right after every login and relogin that
\* returns, and false right after every logout.
C6_ConnectedAfterLogin ==
    /\ (lastOp \in {"login", "relogin"} /\ outcome.kind = "return")
          => IsConnected(Self)
    /\ lastOp = "logout" => ~IsConnected(Self)

C6_Witness ==
    /\ lastOp = "relogin"
    /\ outcome.kind = "return"
    /\ logins = 1
    /\ session = "open"
    /\ received.status = 200
    /\ token = JWT("t1", "Bearer")

\* C7: the headers hold an authorization entry exactly when token is not
\* null, and a Cookie entry exactly when cookie is not null.
C7_HeadersFollowState ==
    /\ headers["authorization"] # Absent <=> token # NoToken
    /\ headers["Cookie"] # Absent <=> cookie # None

\* C8: get, post and login on a client with no session fail with the "no
\* active session" ConnectionError and send nothing.
C8_NoSessionRefused ==
    (op = "none" /\ lastOp \in {"get", "post", "login"} /\ session = "None")
    => /\ outcome = NoActiveSession
       /\ sends = 0
       /\ logins = 0

\* C9: a confirm_order response that does not report success ends
\* make_transactions with RuntimeError naming the order id, and no call
\* follows it: no second confirmation, no new order, no balance fetch.
C9_FailedConfirmIsFatal ==
    \A i \in 1..Len(mt.log) :
        (mt.log[i].call = "confirm_order" /\ mt.log[i].done
           /\ ~mt.log[i].result.success)
        => /\ i = Len(mt.log)
           /\ op = "none"
           /\ req = NoReq
           /\ lastOp \in {"make_transactions", "__exit__"}
           /\ outcome.kind = "RuntimeError"
           /\ outcome.detail = mt.log[i].orderId
           /\ outcome.detail = mt.log[i - 1].result.orderId

C9_Witness ==
    /\ op = "none"
    /\ lastOp = "make_transactions"
    /\ outcome.kind = "RuntimeError"
    /\ outcome.detail = "o1"
    /\ Len(mt.log) = 3
    /\ ~mt.log[3].result.success

\* C10: when the first balance make_transactions fetches is below 5.0 (a
\* body without the field reads as 0.0), it has called get_balance once and
\* nothing else, that call has sent one request (and one more for each
\* relogin-and-retry), and it returns that snapshot.
C10_BelowThresholdReturnsAtOnce ==
    (lastOp # "__exit__" /\ mt.first # NoValue
       /\ BalanceValue(mt.first) < Threshold)
    => /\ MtReturned
       /\ outcome.value = mt.first
       /\ mt.iter = 0
       /\ mt.log = << Call("get_balance", "", TRUE, mt.first) >>
       /\ sends = 1 + relogins
       /\ session_expired # "True" => sends = 1 /\ logins = 0

C10_Witness ==
    /\ MtReturned
    /\ mt.first # NoValue
    /\ ~mt.first.hasBalance
    /\ outcome.value = mt.first
    /\ sends = 1

\* a call that is login, or begins with it, has ended
LoginCalls == {"login", "relogin", "start_session", "__enter__"}

\* C11: the token is created by login on a successful login response only: a
\* login response that is not 2xx, or that has no authorization header,
\* leaves token null and the client not connected; logout leaves token null,
\* and the login POST of a relogin goes out with the token cleared.
C11_TokenOnlyOnSuccess ==
    /\ (/\ op = "none"
        /\ lastOp \in LoginCalls
        /\ loginPost.sent
        /\ received.endpoint = "login"
        /\ \/ ~Is2xx(received.status)
           \/ loginPost.authorization = Absent)
       => token = NoToken /\ ~IsConnected(Self)
    /\ lastOp = "logout" => token = NoToken
    /\ loginPost.sent => loginPost.carried["authorization"] = Absent

\* C12: a 401 response to a request of the client has two outcomes only:
\* relogin and retry, or the request failure (ConnectionError with status
\* 401) at once; the 401 handling raises no other kind of error, so the
\* provider's session_expired is implemented.
C12_Two401Outcomes ==
    /\ outcome.kind # "NotImplementedError"
    /\ (/\ op = "none"
        /\ received.status = 401
        /\ received.endpoint # "login"
        /\ relogins = 0)
       => /\ outcome.kind = "ConnectionError"
          /\ outcome.status = 401
          /\ outcome.detail = received.text

\* C13: a get or post whose response is 2xx returns: the parsed body when
\* the body is JSON, the raw text of the response when it is not; a 2xx
\* response never makes the call raise.
C13_SuccessNeverRaises ==
    (/\ op = "none"
     /\ lastOp \in {"get", "post"}
     /\ received.endpoint \in Endpoints
     /\ Is2xx(received.status))
    => /\ outcome.kind = "return"
       /\ outcome.value.status = received.status
       /\ outcome.value.text = received.text

\* C14: every login POST is sent with no Content-Type header among the
\* session's headers: the first login of a new client, the login of a
\* relogin, and the login of a second session on the same client.
C14_LoginWithoutContentType ==
    loginPost.sent => loginPost.carried["Content-Type"] = Absent

\* the methods of Client under Decorators.ensure_connection
WorkflowCalls ==
    {"get_balance", "create_order", "confirm_order", "make_transactions"}

\* C15: get_balance, create_order, confirm_order and make_transactions
\* called on a client that is not connected raise the "disconnected"
\* ConnectionError, send no request and leave the client as it was; the
\* first request of such a call is always sent by a connected client.
C15_RequiresConnection ==
    /\ [][(/\ op = "none"
           /\ ~IsConnected(Self)
           /\ (op' \in WorkflowCalls \/ lastOp' \in WorkflowCalls))
          => /\ op' = "none"
             /\ outcome' = Disconnected
             /\ req' = NoReq
             /\ sends' = 0
             /\ logins' = 0
             /\ received' = NoResponse
             /\ UNCHANGED clientVars]_vars
    /\ []((op \in WorkflowCalls /\ req # NoReq /\ sends = 0)
            => IsConnected(Self))

C15_Witness ==
    /\ op = "none"
    /\ lastOp \in WorkflowCalls
    /\ outcome = Disconnected
    /\ sends = 0
    /\ session = "open"
    /\ token = NoToken

\* C16: login on a connected client is a no-op: no login POST is sent and
\* token, cookie, the client's headers and the session's headers stay as
\* they are; logout on a client that is not connected is a no-op too.
C16_NoOpWhenAlreadyThere ==
    /\ [][(op = "none" /\ lastOp' = "login" /\ IsConnected(Self))
          => /\ UNCHANGED clientVars
             /\ ~loginPost'.sent
             /\ logins' = 0
             /\ outcome' = Returned(NoValue)]_vars
    /\ [][(op = "none" /\ lastOp' = "logout" /\ ~IsConnected(Self))
          => /\ UNCHANGED clientVars
             /\ outcome' = Returned(NoValue)]_vars

\* a login that returned without a POST: the client was connected
C16_Witness ==
    /\ op = "none"
    /\ lastOp = "login"
    /\ outcome.kind = "return"
    /\ ~loginPost.sent
    /\ IsConnected(Self)
    /\ token = JWT("t1", "Bearer")
    /\ cookie = "c1"
    /\ sh["authorization"] = "Bearer t1"

\* the events of a poll cycle, in their order
CycleOrder == << "open", "login", "make_transactions", "logout", "close" >>

IsPrefix(p, q) == Len(p) <= Len(q) /\ \A i \in 1..Len(p) : p[i] = q[i]

\* C17: in every run of the driver a poll cycle performs its events in the
\* order open session and login, make_transactions, logout and close
\* session, and a cycle whose block was entered performs them all; the
\* session of a cycle is closed before the next cycle opens one, so at most
\* one session is open; and a steady-state cycle starts more than 60 seconds
\* after the driver last set start, which is when the steady-state cycle
\* before it started.
C17_PollCycle ==
    /\ IsPrefix(driver.events, CycleOrder)
    /\ driver.pc \in {"mark", "loop", "due"} => driver.events = CycleOrder
    /\ lastOp = "__exit__" => driver.events = CycleOrder
    /\ driver.nOpen <= 1
    /\ driver.pc \in {"with", "mark", "loop", "due"}
          => driver.nOpen = 0 /\ session = "None"
    /\ driver.cycles >= 1 => driver.start - driver.prev > PollInterval

\* two steady-state cycles have run, the second 90 seconds after the first
C17_Witness ==
    /\ driver.cycles = 2
    /\ driver.pc = "loop"
    /\ driver.events = CycleOrder
    /\ driver.start - driver.prev = PollInterval + 1
    /\ lastOp = "__exit__"
    /\ outcome.kind = "return"

C19_EverySessionClosed ==
    /\ []((scope = "out" /\ lastOp \in {"__enter__", "__exit__"})
            => session = "None")
    /\ [][(op = "none" /\ lastOp' \in {"start_session", "__enter__"})
          => session = "None"]_vars

\* C20: for two clients a and b, whatever their url and username, a != b
\* is true exactly when a == b is false.
C20_NeNegatesEq ==
    (pair.eq # "unset" /\ pair.ne # "unset")
    => (pair.ne = "True" <=> pair.eq = "False")

====
